---- MODULE Spec2Model ----
(***************************************************************************)
(* Blender parametric object skeleton (s-leger/BlenderParametricObject).   *)
(*                                                                         *)
(* Two source files are modelled:                                          *)
(*   parametric_object_skeleton.py  (impl = "skeleton"): BmeshEdit, the    *)
(*       property group with update(context, topology), panel, operator;   *)
(*   parametric_object.py           (impl = "parametric_object"): the      *)
(*       property group whose update always calls BmeshEdit.buildmesh of   *)
(*       bmesh_utils (a module that is not among the sources).             *)
(*                                                                         *)
(* Lengths are integers in units of 0.05, so that the property minimum of  *)
(* x (0.25) and the operator minimum (0.1) are both representable.         *)
(***************************************************************************)
EXTENDS Integers, Sequences, FiniteSets, TLC

VARIABLES
    impl,     \* which source file is registered
    objs,     \* bpy.data.objects: sequence of object records, id = index
    active,   \* context.scene.objects.active: an id, or None
    mode,     \* context.mode: "OBJECT" or "EDIT"
    last,     \* record of the last handler that ran (history)
    param,    \* Parameter Set under evaluation (geometry specification)
    geom      \* Geometry Snapshot computed from param (geometry specification)

vars == <<impl, objs, active, mode, last, param, geom>>

None == 0

\* ---------------------------------------------------------------- bounds
MaxObjects == 1      \* objects the creation command may create
MaxXSteps == 3       \* x inputs are 0.1 * (1..MaxXSteps)
GeomMax == 5         \* parameter values of the geometry specification
MaxDiff == 1         \* how far an input array's length is from the mesh's count

\* ------------------------------------------------- FloatProperty bounds
XMin == 5            \* ParametricObjectProperty.x min=0.25
YMin == 2            \* ParametricObjectProperty.y min=0.1
ZMin == 2            \* ParametricObjectProperty.z min=0.1
PropMax == 200000    \* max=10000
XDefault == 2000     \* default=100.0
YDefault == 16       \* default=0.80
ZDefault == 40       \* default=2.0
InputStep == 2       \* inputs are multiples of 0.1 (operator min=0.1)

\* values assigned to x, y and z in the scene: x, y and z share one update
\* callback, x carries the variation (0.1 and 0.2 are below its minimum and
\* are clamped), y and z are assigned 0.1
XInputs == {InputStep * k : k \in 1..MaxXSteps}
YInputs == {InputStep}
ZInputs == {InputStep}

Min(a, b) == IF a < b THEN a ELSE b
Max(a, b) == IF a > b THEN a ELSE b

\* FloatProperty(min, max): an assigned value is clamped into [min, max]
Clamp(v, lo, hi) == Max(lo, Min(v, hi))

\* ------------------------------------------------ Parametric Shape Model
\* ParametricObjectProperty.verts
verts(d) ==
    << <<0, d.y, 0>>,
       <<0, 0, 0>>,
       <<d.x, 0, 0>>,
       <<d.x, d.y, 0>>,
       <<0, d.y, d.z>>,
       <<0, 0, d.z>>,
       <<d.x, 0, d.z>>,
       <<d.x, d.y, d.z>> >>

\* a face list with one index outside the vertex list
faces_bad ==
    << <<0, 1, 2, 3>>,
       <<7, 6, 5, 4>>,
       <<7, 4, 0, 3>>,
       <<4, 5, 1, 0>>,
       <<5, 6, 2, 1>>,
       <<6, 7, 3, 8>> >>

\* ParametricObjectProperty.faces (0-based vertex indices, as in the source)
faces ==
    << <<0, 1, 2, 3>>,
       <<7, 6, 5, 4>>,
       <<7, 4, 0, 3>>,
       <<4, 5, 1, 0>>,
       <<5, 6, 2, 1>>,
       <<6, 7, 3, 2>> >>

\* ParametricObjectProperty.uvs
uvs ==
    << << <<0, 0>>, <<0, 1>>, <<1, 1>>, <<1, 0>> >>,
       << <<0, 0>>, <<0, 1>>, <<1, 1>>, <<1, 0>> >>,
       << <<0, 0>>, <<0, 1>>, <<1, 1>>, <<1, 0>> >>,
       << <<0, 0>>, <<0, 1>>, <<1, 1>>, <<1, 0>> >>,
       << <<0, 0>>, <<0, 1>>, <<1, 1>>, <<1, 0>> >>,
       << <<0, 0>>, <<0, 1>>, <<1, 1>>, <<1, 0>> >> >>

\* ParametricObjectProperty.matids
matids == <<0, 0, 0, 0, 0, 0>>

\* the four properties read by update for one Parameter Set
Geometry(d) ==
    [verts |-> verts(d), faces |-> faces, matids |-> matids, uvs |-> uvs]

\* ---------------------------------------------------------- Mesh Resource
\* a mesh data-block: vertex coordinates, faces (0-based vertex indices),
\* per-face material index, and the UV layer (per face, per loop)
EmptyMesh ==
    [verts |-> <<>>, faces |-> <<>>, matidx |-> <<>>, uvlayer |-> FALSE, uv |-> <<>>]

\* Mesh.from_pydata(verts, [], faces) on a new mesh, then update(calc_edges):
\* material indices start at 0 and the new mesh has no UV layer
from_pydata(vs, fs) ==
    [verts |-> vs, faces |-> fs, matidx |-> [i \in 1..Len(fs) |-> 0],
     uvlayer |-> FALSE, uv |-> <<>>]

\* ParametricObjectProperty.buildmesh(context, m) with the geometry g of self
buildmesh(g) == from_pydata(g.verts, g.faces)

\* ------------------------------------------------------------- BmeshEdit
\* a world is the part of bpy's state the handlers read and write
World(ob, ac, mo) == [objs |-> ob, active |-> ac, mode |-> mo]

\* o.data = m
write(w, o, m) == [w EXCEPT !.objs[o].data = m]

\* the result of a call: the world it leaves, the error it raised ("none"
\* on return), the update path taken, whether edit mode was entered, and
\* the index (or indices) at which the error was raised
Result(w, err, path, edit, at) ==
    [w |-> w, err |-> err, path |-> path, edit |-> edit, at |-> at]

\* BmeshEdit._start: select o, make it active, enter edit mode
_start(w, o) ==
    [w EXCEPT !.objs[o].select = TRUE, !.active = o, !.mode = "EDIT"]

\* BmeshEdit._end: leave edit mode
_end(w, o) == [w EXCEPT !.mode = "OBJECT"]

\* BmeshEdit._matids: for i, matid in enumerate(matids):
\*     bm.faces[i].material_index = matid
\* faces 0..min(len)-1 are written; an entry past the last face raises
_matids(m, ids) ==
    [m |-> [m EXCEPT !.matidx =
                [i \in 1..Len(m.faces) |->
                    IF i <= Len(ids) THEN ids[i] ELSE m.matidx[i]]],
     err |-> IF Len(ids) > Len(m.faces) THEN "IndexError" ELSE "none",
     at |-> IF Len(ids) > Len(m.faces) THEN <<Len(m.faces)>> ELSE <<>>]

\* bm.loops.layers.uv.verify(): the layer is created (all zero) when missing
uv_verify(m) ==
    IF m.uvlayer THEN m
    ELSE [m EXCEPT !.uvlayer = TRUE,
                   !.uv = [i \in 1..Len(m.faces) |->
                              [j \in 1..Len(m.faces[i]) |-> <<0, 0>>]]]

\* BmeshEdit._uvs, the two nested loops from face i, loop j (0-based) on;
\* uv is the layer written so far
RECURSIVE _uvs_loop(_, _, _, _, _)
_uvs_loop(fs, uv, us, i, j) ==
    IF i >= Len(fs) THEN [uv |-> uv, err |-> "none", i |-> i, j |-> j]
    ELSE IF j = 0 /\ i > Len(us)            \* if i > l_i: raise
        THEN [uv |-> uv, err |-> "Missing uvs for face", i |-> i, j |-> j]
    ELSE IF i >= Len(us)                    \* l_j = len(uvs[i])
        THEN [uv |-> uv, err |-> "IndexError", i |-> i, j |-> j]
    ELSE IF j >= Len(fs[i + 1]) THEN _uvs_loop(fs, uv, us, i + 1, 0)
    ELSE IF j > Len(us[i + 1])              \* if j > l_j: raise
        THEN [uv |-> uv, err |-> "Missing uv for face", i |-> i, j |-> j]
    ELSE IF j >= Len(us[i + 1])             \* uvs[i][j]
        THEN [uv |-> uv, err |-> "IndexError", i |-> i, j |-> j]
    ELSE _uvs_loop(fs, [uv EXCEPT ![i + 1][j + 1] = us[i + 1][j + 1]],
                   us, i, j + 1)

\* BmeshEdit._uvs: what the loops r leave of the mesh m1
_uvs_done(m1, r) ==
    [m |-> [m1 EXCEPT !.uv = r.uv], err |-> r.err,
     at |-> IF r.err = "none" THEN <<>> ELSE <<r.i, r.j>>]

\* BmeshEdit._uvs, after layer = bm.loops.layers.uv.verify()
_uvs_write(m1, us) == _uvs_done(m1, _uvs_loop(m1.faces, m1.uv, us, 0, 0))

\* BmeshEdit._uvs(bm, uvs)
_uvs(m, us) == _uvs_write(uv_verify(m), us)

\* a _verts that also resets the material index of every face
_verts_reset(m, vs) ==
    [m |-> [m EXCEPT !.verts =
                [i \in 1..Len(m.verts) |->
                    IF i <= Len(vs) THEN vs[i] ELSE m.verts[i]],
                     !.matidx = [i \in 1..Len(m.faces) |-> 1]],
     err |-> IF Len(vs) > Len(m.verts) THEN "IndexError" ELSE "none",
     at |-> IF Len(vs) > Len(m.verts) THEN <<Len(m.verts)>> ELSE <<>>]

\* BmeshEdit._verts: for i, v in enumerate(verts): bm.verts[i].co = v
\* vertices 0..min(len)-1 are moved; an entry past the last vertex raises
_verts(m, vs) ==
    [m |-> [m EXCEPT !.verts =
                [i \in 1..Len(m.verts) |->
                    IF i <= Len(vs) THEN vs[i] ELSE m.verts[i]]],
     err |-> IF Len(vs) > Len(m.verts) THEN "IndexError" ELSE "none",
     at |-> IF Len(vs) > Len(m.verts) THEN <<Len(m.verts)>> ELSE <<>>]

\* the tail of BmeshEdit.verts and BmeshEdit.aspect: r is the outcome of the
\* last mutation made on the edit mesh of o; an error propagates before
\* _end runs, otherwise _end(o) leaves edit mode
finish_edit(w1, o, r, path) ==
    IF r.err # "none" THEN Result(write(w1, o, r.m), r.err, path, TRUE, r.at)
    ELSE Result(_end(write(w1, o, r.m), o), "none", path, TRUE, <<>>)

\* BmeshEdit.verts after bm = _start(context, o)
verts_in_edit(w1, o, vs) ==
    finish_edit(w1, o, _verts(w1.objs[o].data, vs), "verts")

\* BmeshEdit.verts(context, o, verts): _start, _verts, _end
BmeshEdit_verts(w, o, vs) == verts_in_edit(_start(w, o), o, vs)

\* BmeshEdit.aspect after _matids returned r1 (or raised)
aspect_uvs(w1, o, r1, us) ==
    IF r1.err # "none"
    THEN Result(write(w1, o, r1.m), r1.err, "rebuild", TRUE, r1.at)
    ELSE finish_edit(w1, o, _uvs(r1.m, us), "rebuild")

\* BmeshEdit.aspect after bm = _start(context, o)
aspect_in_edit(w1, o, ids, us) ==
    aspect_uvs(w1, o, _matids(w1.objs[o].data, ids), us)

\* BmeshEdit.aspect(context, o, matids, uvs): _start, _matids, _uvs, _end
aspect(w, o, ids, us) == aspect_in_edit(_start(w, o), o, ids, us)

\* update, the topology branch: select o, make it active, replace o.data by
\* a new mesh built from verts and faces, then aspect with matids and uvs
rebuild(w, o, g) ==
    aspect([w EXCEPT !.objs[o].select = TRUE, !.active = o,
                     !.objs[o].data = buildmesh(g)],
           o, g.matids, g.uvs)

\* BmeshEdit.buildmesh(context, o, verts, faces, matids, uvs) of bmesh_utils:
\* the lengths are validated before anything is written, then the whole
\* topology and the attributes of o.data are replaced inside edit mode
BmeshEdit_buildmesh(w, o, g) ==
    IF \/ Len(g.matids) # Len(g.faces)
       \/ Len(g.uvs) # Len(g.faces)
       \/ \E i \in 1..Len(g.faces) : Len(g.uvs[i]) # Len(g.faces[i])
    THEN Result(w, "TopologyError", "rebuild", FALSE, <<>>)
    ELSE IF \E i \in 1..Len(g.faces) : \E j \in 1..Len(g.faces[i]) :
                g.faces[i][j] >= Len(g.verts)
    THEN Result(w, "IndexOutOfRange", "rebuild", FALSE, <<>>)
    ELSE Result([w EXCEPT !.objs[o].select = TRUE, !.active = o,
                          !.mode = "OBJECT",
                          !.objs[o].data =
                              [verts |-> g.verts, faces |-> g.faces,
                               matidx |-> g.matids, uvlayer |-> TRUE,
                               uv |-> g.uvs]],
                "none", "rebuild", TRUE, <<>>)

\* ------------------------------------------------------------------ panel
\* OBJECT_PT_parametric_object.filter: 'ParametricObjectProperty' in o, and
\* False when the test raises (o is None)
\* a filter that accepts every object, parametric or not
filter_any(w, o) == o # None

filter(w, o) == IF o = None THEN FALSE ELSE w.objs[o].hasProps

\* o.children, in id order
RECURSIVE children_from(_, _, _)
children_from(w, o, c) ==
    IF c > Len(w.objs) THEN <<>>
    ELSE IF w.objs[c].parent = o THEN <<c>> \o children_from(w, o, c + 1)
    ELSE children_from(w, o, c + 1)

children(w, o) == children_from(w, o, 1)

\* OBJECT_PT_parametric_object.params: (o, props); a property group is
\* identified by the id of the object that carries it
RECURSIVE params(_, _)
RECURSIVE params_children(_, _, _)
RECURSIVE params_child(_, _, _)
params(w, o) ==
    IF filter(w, o)
    THEN IF w.objs[o].hasProps THEN [o |-> o, props |-> o]
         ELSE params_children(w, o, children(w, o))
    ELSE [o |-> o, props |-> None]

\* the for loop over o.children; o is rebound by every iteration
params_children(w, o, cs) ==
    IF cs = <<>> THEN [o |-> o, props |-> None]
    ELSE params_child(w, params(w, Head(cs)), Tail(cs))

\* the loop body after o, props = cls.params(child)
params_child(w, r, cs) ==
    IF r.props # None THEN r ELSE params_children(w, r.o, cs)

\* --------------------------------------------- ParametricObjectProperty
\* "restore context": old.select = True; scene.objects.active = old
restore(w, old) == [w EXCEPT !.objs[old].select = TRUE, !.active = old]

\* update after the mesh call c: an error leaves before the restore
update_restore(c, old) ==
    IF c.err # "none" THEN c
    ELSE Result(restore(c.w, old), "none", c.path, TRUE, <<>>)

\* skeleton update after o, props = params(old), r being (o, props)
update_found(w, self, topology, old, r) ==
    IF r.props # self THEN Result(w, "none", "none", FALSE, <<>>)
    ELSE update_restore(
             IF topology THEN rebuild(w, r.o, Geometry(w.objs[self].d))
             ELSE BmeshEdit_verts(w, r.o, verts(w.objs[self].d)),
             old)

\* skeleton: ParametricObjectProperty.update(self, context, topology)
update(w, self, topology) ==
    update_found(w, self, topology, w.active, params(w, w.active))

\* an update_size that asks for a topology rebuild
update_size_rebuild(w, self) == update(w, self, TRUE)

\* skeleton: update_size(self, context), the update callback of x, y and z
update_size(w, self) == update(w, self, FALSE)

\* skeleton: update_topology(self, context)
update_topology(w, self) == update(w, self, TRUE)

\* parametric_object.py update after o, props = params(old)
po_update_found(w, self, old, r) ==
    IF r.props # self THEN Result(w, "none", "none", FALSE, <<>>)
    ELSE update_restore(
             BmeshEdit_buildmesh(
                 [w EXCEPT !.objs[r.o].select = TRUE, !.active = r.o],
                 r.o, Geometry(w.objs[self].d)),
             old)

\* parametric_object.py: ParametricObjectProperty.update(self, context)
po_update(w, self) ==
    po_update_found(w, self, w.active, params(w, w.active))

\* the update callback the registered file attaches to x, y and z
callback(im, w, self) ==
    IF im = "skeleton" THEN update_size(w, self) ELSE po_update(w, self)

\* FloatProperty min of field f of the property group
PropMin(f) == IF f = "x" THEN XMin ELSE IF f = "y" THEN YMin ELSE ZMin

\* d.f = v: the value is clamped and stored, then the update callback runs
assign(im, w, self, f, v) ==
    callback(im, [w EXCEPT !.objs[self].d[f] = Clamp(v, PropMin(f), PropMax)],
             self)

\* -------------------------------------------- OBJECT_OT_parametric_object
\* the object bpy.data.objects.new(name, m) returns, after
\* o.ParametricObjectProperty.add(): defaults, an empty mesh, not selected
NewObject ==
    [select |-> FALSE, hasProps |-> TRUE, parent |-> None,
     d |-> [x |-> XDefault, y |-> YDefault, z |-> ZDefault],
     data |-> EmptyMesh]

\* binding of a call update(*positional, topology=...) to the skeleton's
\* signature update(self, context, topology=False): a second positional
\* argument already fills topology
bind_update(npositional, has_topology_kw) ==
    IF npositional > 2 \/ (npositional = 2 /\ has_topology_kw)
    THEN "TypeError" ELSE "none"

\* the last statement of create before return o:
\*   skeleton:           d.update(context, m, topology=True)
\*   parametric_object:  d.update(context)
create_update(im, w, self) ==
    IF im = "skeleton"
    THEN IF bind_update(2, TRUE) # "none"
         THEN Result(w, bind_update(2, TRUE), "none", FALSE, <<>>)
         ELSE update(w, self, TRUE)
    ELSE po_update(w, self)

\* create's progress: the last call's result r and the number k of mesh
\* updates the assignments made so far have run
Progress(r, k) == [r |-> r, k |-> k]

create_count(k, r) == Progress(r, IF r.path # "none" THEN k + 1 ELSE k)

\* create: one of d.x = self.x, d.y = self.y, d.z = self.z
create_assign(im, acc, n, f, v) ==
    IF acc.r.err # "none" THEN acc
    ELSE create_count(acc.k, assign(im, acc.r.w, n, f, v))

\* what create (and so execute) leaves
Created(r, k, n) ==
    [w |-> r.w, err |-> r.err, path |-> r.path, edit |-> r.edit,
     assigns |-> k, o |-> n]

\* create after the assignments: link, select, make active, d.update(...)
create_link(im, acc, n) ==
    IF acc.r.err # "none" THEN Created(acc.r, acc.k, n)
    ELSE Created(create_update(
                     im,
                     [acc.r.w EXCEPT !.objs[n].select = TRUE, !.active = n],
                     n),
                 acc.k, n)

\* OBJECT_OT_parametric_object.create, n being the id of the new object
create_new(im, w0, n, x, y, z) ==
    create_link(
        im,
        create_assign(im,
            create_assign(im,
                create_assign(im,
                    Progress(Result(w0, "none", "none", FALSE, <<>>), 0),
                    n, "x", x),
                n, "y", y),
            n, "z", z),
        n)

\* OBJECT_OT_parametric_object.create
create(im, w, x, y, z) ==
    create_new(im, [w EXCEPT !.objs = Append(w.objs, NewObject)],
               Len(w.objs) + 1, x, y, z)

\* bpy.ops.object.select_all(action="DESELECT")
select_all_deselect(w) ==
    [w EXCEPT !.objs = [i \in 1..Len(w.objs) |->
                           [w.objs[i] EXCEPT !.select = FALSE]]]

\* execute's return value once create returned (or raised)
execute_return(r) ==
    [w |-> r.w, err |-> r.err, path |-> r.path, edit |-> r.edit,
     assigns |-> r.assigns, o |-> r.o,
     ret |-> IF r.err = "none" THEN "FINISHED" ELSE "raised"]

\* OBJECT_OT_parametric_object.execute
execute(im, w, x, y, z) ==
    IF w.mode = "OBJECT"
    THEN execute_return(create(im, select_all_deselect(w), x, y, z))
    ELSE [w |-> w, err |-> "none", path |-> "none", edit |-> FALSE,
          assigns |-> 0, o |-> None, ret |-> "CANCELLED"]

\* ------------------------------------------------------------ the scene
Impls == {"skeleton", "parametric_object"}
Fields == {"x", "y", "z"}
Inputs(f) == IF f = "x" THEN XInputs ELSE IF f = "y" THEN YInputs ELSE ZInputs

Ids == 1..Len(objs)
Now == World(objs, active, mode)

\* what the last handler did: op, target object, error raised ("none" on
\* return) and where, update path, whether edit mode was entered, mesh
\* updates run by create's assignments, operator return value, the input,
\* and prev, the handler that ran right before it ("none": a host action)
Record(op, o, err, at, path, edit, assigns, ret, arg, prev) ==
    [op |-> op, o |-> o, err |-> err, at |-> at, path |-> path,
     edit |-> edit, assigns |-> assigns, ret |-> ret, arg |-> arg,
     prev |-> prev]

Last(op, o, err, at, path, edit, assigns, ret, arg) ==
    Record(op, o, err, at, path, edit, assigns, ret, arg,
           IF last.err = "none" THEN last.op ELSE "raised")

Idle == Record("none", None, "none", <<>>, "none", FALSE, 0, "none", <<>>, "none")

\* the handler's effect r becomes the next state
Becomes(r, l) ==
    /\ objs' = r.w.objs
    /\ active' = r.w.active
    /\ mode' = r.w.mode
    /\ last' = l
    /\ UNCHANGED <<impl, param, geom>>

ExecuteLast(r, arg) ==
    Last("execute", r.o, r.err, <<>>, r.path, r.edit, r.assigns, r.ret, arg)

CallLast(op, o, r, arg) ==
    Last(op, o, r.err, r.at, r.path, r.edit, 0, "none", arg)

Ran(op, o, r, arg) == Becomes(r, CallLast(op, o, r, arg))

Executed(r, arg) == Becomes(r, ExecuteLast(r, arg))

Init ==
    /\ impl \in Impls
    /\ objs = <<>>
    /\ active = None
    /\ mode = "OBJECT"
    /\ last = Idle
    /\ param = <<>>
    /\ geom = <<>>

\* the user runs the creation operator with parameters x, y, z
Execute(x, y, z) ==
    /\ Len(objs) < MaxObjects
    /\ Executed(execute(impl, Now, x, y, z), <<x, y, z>>)

\* a size parameter of object o is assigned (panel slider or script)
SetParam(o, f, v) ==
    /\ objs[o].hasProps
    /\ Ran("set", o, assign(impl, Now, o, f, v), <<f, v>>)

\* skeleton: update_topology(self, context) is called for o's property group
UpdateTopology(o) ==
    /\ impl = "skeleton"
    /\ objs[o].hasProps
    /\ Ran("update_topology", o, update_topology(Now, o), <<>>)

\* host: the user toggles the selection flag of o (object mode)
Select(o) ==
    /\ mode = "OBJECT"
    /\ objs' = [objs EXCEPT ![o].select = ~objs[o].select]
    /\ last' = Idle
    /\ UNCHANGED <<impl, active, mode, param, geom>>

\* host: another object, or none, becomes the active object (object mode)
Activate(a) ==
    /\ mode = "OBJECT"
    /\ a # active
    /\ active' = a
    /\ last' = Idle
    /\ UNCHANGED <<impl, objs, mode, param, geom>>

\* host: the user leaves or enters edit mode on the active object
ModeSet ==
    /\ active # None
    /\ mode' = IF mode = "OBJECT" THEN "EDIT" ELSE "OBJECT"
    /\ last' = Idle
    /\ UNCHANGED <<impl, objs, active, param, geom>>

Next ==
    \/ \E x \in XInputs, y \in YInputs, z \in ZInputs : Execute(x, y, z)
    \/ \E o \in Ids, f \in Fields : \E v \in Inputs(f) : SetParam(o, f, v)
    \/ \E o \in Ids : UpdateTopology(o)
    \/ \E o \in Ids : Select(o)
    \/ \E a \in Ids \cup {None} : Activate(a)
    \/ ModeSet

Spec == Init /\ [][Next]_vars

\* ------------------------------------------- the geometry specification
\* in-bounds Parameter Sets: each field from its minimum upwards
GeomParams ==
    [x : XMin..(XMin + GeomMax - 1),
     y : YMin..(YMin + GeomMax - 1),
     z : ZMin..(ZMin + GeomMax - 1)]

InitGeom ==
    /\ impl \in Impls
    /\ objs = <<>>
    /\ active = None
    /\ mode = "OBJECT"
    /\ last = Idle
    /\ param \in GeomParams
    /\ geom = <<>>

\* the properties verts, faces, matids and uvs are read for param
ComputeGeometry ==
    /\ geom = <<>>
    /\ geom' = Geometry(param)
    /\ UNCHANGED <<impl, objs, active, mode, last, param>>

NextGeom == ComputeGeometry

SpecGeom == InitGeom /\ [][NextGeom]_vars

\* ------------------------------------------ the BmeshEdit specification
\* BmeshEdit's entry points called on one built object with arrays that
\* need not match the mesh
Faces == Len(faces)
Corners == Len(faces[1])
Verts == Len(verts([x |-> XMin, y |-> YMin, z |-> ZMin]))

\* the Parameter Sets the inputs reach after clamping
SceneParams ==
    {[x |-> Clamp(x, XMin, PropMax), y |-> Clamp(y, YMin, PropMax),
      z |-> Clamp(z, ZMin, PropMax)] :
        x \in XInputs, y \in YInputs, z \in ZInputs}

\* a vertex list of length n: the box vertices of d, cut or padded
VertsInput(d, n) ==
    [i \in 1..n |-> IF i <= Verts THEN verts(d)[i] ELSE <<0, 0, 0>>]

\* a material-id list of length n (slot 1; a new mesh has slot 0)
MatidsInput(n) == [i \in 1..n |-> 1]

\* a uv list of n entries of 4 uvs each, but l uvs in entry k
UvsInput(n, k, l) ==
    [i \in 1..n |-> [j \in 1..(IF i = k THEN l ELSE Corners) |-> <<i, j>>]]

\* lengths within MaxDiff of a count c
Near(c) == Max(0, c - MaxDiff)..(c + MaxDiff)

UvsInputs ==
    {UvsInput(n, 0, Corners) : n \in Near(Faces)}
    \cup {UvsInput(Faces, k, l) : k \in 1..Faces, l \in Near(Corners)}

\* the object update(context, topology=True) leaves: built, active, selected
BuiltObject(d) ==
    update_topology(World(<<[NewObject EXCEPT !.d = d]>>, 1, "OBJECT"), 1).w.objs

InitEdit ==
    /\ impl = "skeleton"
    /\ \E d \in SceneParams : objs = BuiltObject(d)
    /\ active = 1
    /\ mode = "OBJECT"
    /\ last = Idle
    /\ param = <<>>
    /\ geom = <<>>

\* BmeshEdit.verts(context, o, verts) with a vertex list of length n
EditVerts(d, n) ==
    Ran("verts", 1, BmeshEdit_verts(Now, 1, VertsInput(d, n)),
        [nverts |-> n])

\* BmeshEdit.aspect(context, o, matids, uvs); at most one of the two
\* lists is ill-formed
EditAspect(n, us) ==
    /\ n = Faces \/ us = UvsInput(Faces, 0, Corners)
    /\ Ran("aspect", 1, aspect(Now, 1, MatidsInput(n), us),
        [nmat |-> n, uvs |-> us])

\* the topology branch of update for a shape whose matids has n entries
EditRebuild(d, n) ==
    Ran("rebuild", 1,
        rebuild(Now, 1, [verts |-> verts(d), faces |-> faces,
                         matids |-> MatidsInput(n), uvs |-> uvs]),
        [nmat |-> n])

NextEdit ==
    \/ \E d \in SceneParams, n \in Near(Verts) : EditVerts(d, n)
    \/ \E n \in Near(Faces), us \in UvsInputs : EditAspect(n, us)
    \/ \E d \in SceneParams, n \in Near(Faces) : EditRebuild(d, n)

SpecEdit == InitEdit /\ [][NextEdit]_vars

\* ---------------------------------------------- the panel specification
\* scenes with parent / child relations: parametric objects created by the
\* operator, plain objects (no ParametricObjectProperty) added by the host
MaxScene == MaxObjects + 1

\* values assigned to x in these scenes: its minimum and the next step
PanelInputs == {XMin, XMin + 1}

\* an object of the host without ParametricObjectProperty: d is never read
PlainObject == [NewObject EXCEPT !.hasProps = FALSE]

\* the ids of the objects that carry ParametricObjectProperty
Parametric(os) == {o \in 1..Len(os) : os[o].hasProps}

\* a is the parent of c, or the parent of its parent, ...
RECURSIVE IsAncestor(_, _, _)
IsAncestor(os, a, c) ==
    /\ os[c].parent # None
    /\ (os[c].parent = a \/ IsAncestor(os, a, os[c].parent))

InitPanel == Init

\* the user runs the creation operator with width x
PanelExecute(x) ==
    /\ Len(objs) < MaxScene
    /\ Cardinality(Parametric(objs)) < MaxObjects
    /\ Executed(execute(impl, Now, x, InputStep, InputStep),
                <<x, InputStep, InputStep>>)

\* host: a plain object is added to the scene
AddPlain ==
    /\ Len(objs) < MaxScene
    /\ objs' = Append(objs, PlainObject)
    /\ last' = Idle
    /\ UNCHANGED <<impl, active, mode, param, geom>>

\* host: c.parent = p (None clears it); the host refuses a cycle
SetParent(c, p) ==
    /\ p # c
    /\ p # objs[c].parent
    /\ p # None => ~IsAncestor(objs, c, p)
    /\ objs' = [objs EXCEPT ![c].parent = p]
    /\ last' = Idle
    /\ UNCHANGED <<impl, active, mode, param, geom>>

\* the width of object o is assigned (panel slider or script)
PanelSetParam(o, v) ==
    /\ objs[o].hasProps
    /\ Ran("set", o, assign(impl, Now, o, "x", v), <<"x", v>>)

\* OBJECT_PT_parametric_object.draw: o, props = params(context.object)
Draw ==
    Ran("draw", active, Result(Now, "none", "none", FALSE, <<>>),
        params(Now, active))

NextPanel ==
    \/ \E x \in PanelInputs : PanelExecute(x)
    \/ AddPlain
    \/ \E c \in Ids, p \in Ids \cup {None} : SetParent(c, p)
    \/ \E o \in Ids, v \in PanelInputs : PanelSetParam(o, v)
    \/ \E a \in Ids \cup {None} : Activate(a)
    \/ Draw

SpecPanel == InitPanel /\ [][NextPanel]_vars

\* ================================================================ claims
\* a mesh that has the box topology
Built(m) == Len(m.verts) = Verts /\ Len(m.faces) = Faces

\* C1: every call of update that enters edit mode leaves the active object
\* and the selection flag of every object as they were before the call, on
\* return and on an error raised during the mesh mutation.
C1_ContextRestored ==
    [][(last'.op \in {"set", "update_topology"} /\ last'.edit)
       => /\ active' = active
          /\ \A o \in Ids : objs'[o].select = objs[o].select]_vars

\* C2: a full rebuild given a material-id list whose length differs from the
\* number of faces ends in an error and leaves the mesh of the object exactly
\* as it was before the call.
C2_MismatchedMatidsAtomic ==
    [][(last'.op = "rebuild" /\ last'.arg.nmat # Faces)
       => /\ last'.err # "none"
          /\ objs'[1].data = objs[1].data]_vars

\* C3: the fast vertex update with a vertex list whose length differs from
\* the mesh's vertex count always ends in an error.
C3_WrongLengthVertsFails ==
    (last.op = "verts" /\ last.arg.nverts # Len(objs[1].data.verts))
    => last.err # "none"
Box(d) ==
    [verts |-> verts(d), faces |-> faces, matidx |-> matids,
     uvlayer |-> TRUE, uv |-> uvs]

\* C5: every run of the creation command in Object mode performs exactly one
\* full rebuild: the three assignments run no mesh update, the final update
\* call returns without error, and the new object ends with the box of the
\* operator's parameters.
C5_CreateRebuildsOnce ==
    (last.op = "execute" /\ last.ret # "CANCELLED")
    => /\ last.err = "none"
       /\ last.assigns = 0
       /\ last.path = "rebuild"
       /\ objs[last.o].data =
              Box([x |-> last.arg[1], y |-> last.arg[2], z |-> last.arg[3]])

\* every object's mesh has the box vertices of the object's (x, y, z)
InSync(os) == \A o \in 1..Len(os) : os[o].data.verts = verts(os[o].d)

\* C6: a parameter mutation that runs to completion through its update
\* callback, whichever object is active, leaves the vertices of every
\* object's mesh equal to the box vertices of that object's current
\* (x, y, z): no mutation leaves a mesh stale.
C6_MutationKeepsMeshInSync ==
    [][(last'.op = "set" /\ last'.err = "none" /\ InSync(objs))
       => InSync(objs')]_vars

\* C7: the geometry of every in-bounds Parameter Set has 8 vertices, 6
\* faces, 6 material ids and 6 UV groups; every face is a 4-tuple of vertex
\* indices in 0..7 and every UV group has one entry per corner of its face.
C7_GeometryShape ==
    geom # <<>>
    => /\ Len(geom.verts) = 8
       /\ Len(geom.faces) = 6
       /\ Len(geom.matids) = 6
       /\ Len(geom.uvs) = 6
       /\ \A i \in 1..Len(geom.faces) :
              /\ Len(geom.faces[i]) = 4
              /\ \A j \in 1..Len(geom.faces[i]) : geom.faces[i][j] \in 0..7
              /\ Len(geom.uvs[i]) = Len(geom.faces[i])
              /\ Len(geom.uvs[i]) = 4

\* C7 witness: the geometry of an in-bounds Parameter Set with three
\* different sizes was computed.
C7_Witness ==
    /\ geom # <<>>
    /\ param = [x |-> XMin + 2, y |-> YMin, z |-> ZMin + 1]
    /\ geom.verts[8] = <<XMin + 2, YMin, ZMin + 1>>

\* the directed edges of face f (a tuple of vertex indices), in winding order
FaceEdges(f) == {<<f[j], f[(j % Len(f)) + 1]>> : j \in 1..Len(f)}

\* the faces of g that traverse edge e in its direction
Traversing(g, e) == {i \in 1..Len(g.faces) : e \in FaceEdges(g.faces[i])}

\* every edge is shared by exactly two faces, traversed in opposite directions
Closed(g) ==
    \A i \in 1..Len(g.faces) : \A e \in FaceEdges(g.faces[i]) :
        /\ Traversing(g, e) = {i}
        /\ Cardinality(Traversing(g, <<e[2], e[1]>>)) = 1

\* vertex k (0-based) of g
Vertex(g, k) == g.verts[k + 1]
Minus(a, b) == <<a[1] - b[1], a[2] - b[2], a[3] - b[3]>>
Cross(a, b) ==
    <<a[2] * b[3] - a[3] * b[2], a[3] * b[1] - a[1] * b[3],
      a[1] * b[2] - a[2] * b[1]>>
Dot(a, b) == a[1] * b[1] + a[2] * b[2] + a[3] * b[3]

\* the right-hand-rule normal of face f: (v1 - v0) x (v2 - v1)
Normal(g, f) ==
    Cross(Minus(Vertex(g, f[2]), Vertex(g, f[1])),
          Minus(Vertex(g, f[3]), Vertex(g, f[2])))

\* four times the vector from the centre of the box (0,0,0)..(x,y,z) to the
\* centroid of face f
FromCentre(g, d, f) ==
    <<Vertex(g, f[1])[1] + Vertex(g, f[2])[1] + Vertex(g, f[3])[1]
          + Vertex(g, f[4])[1] - 2 * d.x,
      Vertex(g, f[1])[2] + Vertex(g, f[2])[2] + Vertex(g, f[3])[2]
          + Vertex(g, f[4])[2] - 2 * d.y,
      Vertex(g, f[1])[3] + Vertex(g, f[2])[3] + Vertex(g, f[3])[3]
          + Vertex(g, f[4])[3] - 2 * d.z>>

Outward(g, d, f) == Dot(Normal(g, f), FromCentre(g, d, f)) > 0

\* C8: for every strictly positive (x, y, z) the 6 quads over the 8 points
\* form a closed box whose winding is outward-facing.
C8_ClosedOutwardBox ==
    geom # <<>>
    => /\ Closed(geom)
       /\ \A i \in 1..Len(geom.faces) : Outward(geom, param, geom.faces[i])

\* C9: a full rebuild followed by the fast vertex update with the vertex
\* positions of the same geometry yields the mesh of the rebuild alone, and
\* the fast vertex update changes neither the face list, nor a material
\* index, nor a UV, nor the vertex count.
C9_FastUpdateAfterRebuild ==
    [][/\ (/\ last.op = "update_topology" /\ last.path = "rebuild"
           /\ last.err = "none"
           /\ last'.op = "set" /\ last'.o = last.o /\ last'.path = "verts"
           /\ objs'[last.o].d = objs[last.o].d)
          => /\ last'.err = "none"
             /\ objs'[last.o].data = objs[last.o].data
       /\ (last'.op = "set" /\ last'.path = "verts")
          => /\ objs'[last'.o].data.faces = objs[last'.o].data.faces
             /\ objs'[last'.o].data.matidx = objs[last'.o].data.matidx
             /\ objs'[last'.o].data.uvlayer = objs[last'.o].data.uvlayer
             /\ objs'[last'.o].data.uv = objs[last'.o].data.uv
             /\ Len(objs'[last'.o].data.verts) = Len(objs[last'.o].data.verts)
      ]_vars

\* C9 witness: the fast vertex update ran right after a full rebuild of the
\* same object and the mesh is the box of the object's Parameter Set.
C9_Witness ==
    /\ last.prev = "update_topology"
    /\ last.op = "set" /\ last.path = "verts" /\ last.err = "none"
    /\ objs[last.o].data = Box(objs[last.o].d)

\* the first face (0-based) that lacks a uv entry or a corner's uv in us
FirstMissing(fs, us) ==
    LET bad == {i \in 0..(Len(fs) - 1) :
                   i >= Len(us) \/ Len(us[i + 1]) < Len(fs[i + 1])}
    IN IF bad = {} THEN -1
       ELSE CHOOSE i \in bad : \A k \in bad : i <= k

\* C10: _uvs reports every missing UV with its dedicated error: "Missing uvs
\* for face i" for the first face i without an entry, "Missing uv j for face
\* i" for the first corner j of face i without an entry, never another error.
C10_MissingUvReported ==
    (/\ last.op = "aspect"
     /\ last.arg.nmat <= Len(objs[1].data.faces)
     /\ FirstMissing(objs[1].data.faces, last.arg.uvs) >= 0)
    => IF FirstMissing(objs[1].data.faces, last.arg.uvs) >= Len(last.arg.uvs)
       THEN /\ last.err = "Missing uvs for face"
            /\ last.at = <<FirstMissing(objs[1].data.faces, last.arg.uvs), 0>>
       ELSE /\ last.err = "Missing uv for face"
            /\ last.at =
                 <<FirstMissing(objs[1].data.faces, last.arg.uvs),
                   Len(last.arg.uvs[
                       FirstMissing(objs[1].data.faces, last.arg.uvs) + 1])>>

\* what params(o) returns when it never looks at o's children: o with its
\* own property group, or o with None
Own(os, o) ==
    [o |-> o, props |-> IF o # None /\ os[o].hasProps THEN o ELSE None]

\* C11: params(o) never returns the property group of a child: for every
\* object o of the scene, and for None, it returns (o, o's own property
\* group) when o carries ParametricObjectProperty and (o, None) otherwise,
\* whatever o's children carry; so while an object without the property is
\* active, assigning a parameter of one of its descendants runs an update
\* that returns without touching any mesh, selection, active object or mode.
C11_ParamsNeverReturnsChild ==
    [][/\ \A o \in (1..Len(objs')) \cup {None} :
              params(World(objs', active', mode'), o) = Own(objs', o)
       /\ last'.op = "draw" => last'.arg = Own(objs, active)
       /\ (/\ last'.op = "set"
           /\ active # None
           /\ ~objs[active].hasProps
           /\ IsAncestor(objs, active, last'.o))
          => /\ last'.err = "none"
             /\ last'.path = "none"
             /\ ~last'.edit
             /\ active' = active
             /\ mode' = mode
             /\ \A o \in Ids : /\ objs'[o].data = objs[o].data
                                /\ objs'[o].select = objs[o].select]_vars

\* a parameter of a parametric object was assigned while its parent, an
\* object without the property, was the active object
C11_Witness ==
    /\ last.op = "set"
    /\ active # None
    /\ ~objs[active].hasProps
    /\ objs[last.o].hasProps
    /\ objs[last.o].parent = active

====
